---- MODULE Spec2Model ----
(***************************************************************************)
(* Model of the graph execution engine of src/core/graph.py: the build     *)
(* operations of Graph (add_node, add_edge, set_entry_point) and the       *)
(* traversal of Graph.execute, one loop iteration per step, with the       *)
(* diagnostics Graph.validate and Graph.visualize.                         *)
(*                                                                         *)
(* A state of the pipeline (StateSchema) is abstracted to one integer      *)
(* binding; node functions and edge conditions are the caller's callables, *)
(* drawn from the small sets NodeFuncs and Conditions.                     *)
(***************************************************************************)
EXTENDS Integers, Sequences, FiniteSets, TLC

\* ---------------------------------------------------------------- bounds
MaxEdges == 2
MaxInitial == 1

\* ---------------------------------------------------------------- inputs
None == "None"
NoState == -1       \* None where a state is expected
Names == {"A", "B", "C"}
NodeFuncs == {"incr", "fail"}
Conditions == {None, "is_even"}
InitialStates == 0..MaxInitial

NoEntryPointError == "Graph has no entry point"
CycleError == "Cycle detected"
NodeNotFoundError == "Node not found"
NodeExistsError == "Node already exists"
SourceNotFoundError == "Source node not found"
TargetNotFoundError == "Target node not found"
NodeFuncError == "node function raised"

VARIABLES
    nodes,          \* Graph.nodes: name -> function id, None when not registered
    edges,          \* Graph.edges: sequence of [source, target, condition]
    entry_point,    \* Graph.entry_point: a name or None
    pc,             \* "idle", or "running" while an execute call is in its loop
    current_state,  \* execute's local current_state
    current_node,   \* execute's local current_node
    visited_nodes,  \* execute's local visited_nodes
    call,           \* the operation called most recently
    raised,         \* the error that call raised, or None
    returned,       \* the state that call returned, NoState when it returned none
    log,            \* Node.execute calls of that call: [node, input, output]
    cond_log,       \* condition calls of the latest loop iteration: <<edge index, state>>
    issues,         \* the issues the latest call returned, if it was validate
    text,           \* the text the latest call returned, if it was visualize
    frames,         \* the frames of execute calls that run side by side, by call
    heap,           \* the StateSchema instances constructed so far: [cls, data]
    last,           \* the latest StateSchema call: [op, self, kwargs, result, error]
    selector,       \* StrategySelector: [default_strategy, enable_auto_switch]
    selection,      \* the latest select_strategy call: its arguments and result
    strategy,       \* CompiledStrategy: its GraphCache and its counters
    agents,         \* the agents: [key, valid] by agent
    executed,       \* the latest CompiledStrategy.execute call
    traditional     \* TraditionalStrategy: its counter and its latest execute call

graph == <<nodes, edges, entry_point>>
locals == <<current_state, current_node, visited_nodes>>
reports == <<issues, text>>
vars == <<nodes, edges, entry_point, pc, current_state, current_node,
          visited_nodes, call, raised, returned, log, cond_log, issues, text,
          frames, heap, last, selector, selection, strategy, agents, executed,
          traditional>>
schema == <<heap, last>>
services == <<selector, selection, strategy, agents, executed, traditional>>

\* The fields of StateSchema instances; Missing for a key that is not in a dict
Fields == {"name", "age", "output",
           "messages", "tool_calls", "intermediate_steps", "is_complete",
           "current_node", "next_node", "context", "results"}
Missing == <<"missing", 0>>
NoKwargs == [k \in Fields |-> Missing]

\* No StateSchema instance constructed, no StateSchema call made
NoCall == [op |-> None, self |-> 0, kwargs |-> NoKwargs, result |-> 0, error |-> None]
no_states == heap = <<>> /\ last = NoCall

\* None as a value with a type
NoneValue == <<"NoneType", 0>>

\* StrategySelector.__init__ without DEFAULT_STRATEGY and AUTO_STRATEGY set
DefaultSelector == [default_strategy |-> "traditional", enable_auto_switch |-> FALSE]
NoSelection ==
    [request_strategy |-> None, header_strategy |-> None,
     request_complexity |-> NoneValue, result |-> None]

\* The agents, and the cache keys GraphCache._generate_key gives them: the
\* digest of the agent's class name, name and sorted tool names
Agents == {1, 2}
AgentKeys == {"k1", "k2"}

\* A graph an agent's create_graph built: owner is the agent whose methods are
\* its node functions, has_issues whether validate() returns issues on it;
\* owner 0 for no graph
NoGraph == [owner |-> 0, has_issues |-> FALSE]
DefaultCacheSize == 50

\* CompiledStrategy.__init__ with GraphCache.__init__
NewStrategy(cache_size) ==
    [max_size |-> cache_size,
     cache |-> [k \in AgentKeys |-> NoGraph],
     validation_cache |-> [k \in AgentKeys |-> "absent"],
     execution_count |-> 0, cache_hits |-> 0, cache_misses |-> 0]
NoRun == [agent |-> 0, graph |-> NoGraph, cached |-> FALSE, built |-> 0,
          hit |-> FALSE, validated |-> FALSE, raised |-> FALSE]

\* TraditionalStrategy.__init__
NewTraditional == [execution_count |-> 0, agent |-> 0, graph |-> NoGraph, raised |-> FALSE]

\* No select_strategy call and no CompiledStrategy.execute call made
no_services ==
    /\ selector = DefaultSelector
    /\ selection = NoSelection
    /\ strategy = NewStrategy(DefaultCacheSize)
    /\ agents = [a \in Agents |-> [key |-> "k1", valid |-> TRUE]]
    /\ executed = NoRun
    /\ traditional = NewTraditional

Registered == {n \in Names : nodes[n] # None}

\* ---------------------------------------------------------------- callables
\* States that are StateSchema instances without type hints: the bindings of
\* the keys, Unbound for a key that is not in _data (get returns the default)
Keys == {"a", "b", "c"}
Unbound == 0
EmptyState == [k \in Keys |-> Unbound]

\* StateSchema.get
get(state, key) == state[key]

new_data_dropped(data, key, value) == data

\* StateSchema.set: new_data = copy.deepcopy(self._data); new_data[key] = value
new_data(data, key, value) == [data EXCEPT ![key] = value]

\* ------------------------------------------------- StateSchema values
\* StateSchema and the subclass of tests/test_state.py that declares
\* name: str and age: int
Classes == {"StateSchema", "TestState"}
\* The subclasses that define their own __init__
Subtypes == {"AgentState", "GraphState"}
TestFields == {"name", "age"}
StrValues == {<<"str", 1>>}
IntValues == {<<"int", 25>>, <<"int", 30>>}
Values == StrValues \cup IntValues

\* Values by type and content: the second component is 0 for the values that
\* are false in a boolean context ([], "", {}, False)
EmptyList == <<"list", 0>>
OneList == <<"list", 1>>
EmptyDict == <<"dict", 0>>
OneDict == <<"dict", 1>>
EmptyStr == <<"str", 0>>
SomeStr == <<"str", 1>>
FalseValue == <<"bool", 0>>
TrueValue == <<"bool", 1>>

\* bool(value)
truthy(value) == value[2] # 0

\* **kwargs that bind keys of `keys` to values of `values`
KwargsOver(keys, values) ==
    {[k \in Fields |-> IF k \in keys THEN f[k] ELSE Missing] :
        f \in [keys -> values \cup {Missing}]}

Kwargs == KwargsOver(TestFields, Values)
StateValidationError == "StateValidationError"
TypeErrorRaised == "TypeError"
AttributeErrorRaised == "AttributeError"

\* get_type_hints(self.__class__): "" for a field the class does not declare
type_hints(cls) ==
    [k \in Fields |->
        CASE cls = "TestState" /\ k = "name" -> "str"
          [] cls = "TestState" /\ k = "age" -> "int"
          [] cls = "AgentState" /\ k \in {"messages", "tool_calls", "intermediate_steps"}
                -> "list"
          [] cls = "AgentState" /\ k = "is_complete" -> "bool"
          [] cls = "GraphState" /\ k \in {"current_node", "next_node"} -> "str"
          [] cls = "GraphState" /\ k \in {"context", "results"} -> "dict"
          [] OTHER -> ""]

\* StateSchema._is_valid_type: isinstance(value, expected_type), for
\* Dict[str, Any] isinstance(value, dict); a bool is an instance of int
is_valid_type(value, expected_type) ==
    \/ value[1] = expected_type
    \/ expected_type = "int" /\ value[1] = "bool"

\* StateSchema._validate_types raises: a declared field of data holds a value
\* of another type
validate_types_raises(cls, data) ==
    \E field \in Fields :
        /\ type_hints(cls)[field] # ""
        /\ data[field] # Missing
        /\ ~is_valid_type(data[field], type_hints(cls)[field])

\* The parameters of the subclass's __init__
init_params(cls) ==
    CASE cls = "AgentState" ->
            {"messages", "tool_calls", "intermediate_steps", "is_complete"}
      [] cls = "GraphState" -> {"current_node", "next_node", "context", "results"}

\* value or default (a parameter that is not passed is None)
or_default(value, default) ==
    IF value = Missing \/ ~truthy(value) THEN default ELSE value

\* The parameter's default when it is not passed
param(value, default) == IF value = Missing THEN default ELSE value

\* AgentState.__init__ / GraphState.__init__: the kwargs of super().__init__
init_kwargs(cls, kwargs) ==
    [k \in Fields |->
        CASE cls = "AgentState" /\ k \in {"messages", "tool_calls", "intermediate_steps"}
                -> or_default(kwargs[k], EmptyList)
          [] cls = "AgentState" /\ k = "is_complete" -> param(kwargs[k], FalseValue)
          [] cls = "GraphState" /\ k \in {"current_node", "next_node"}
                -> param(kwargs[k], EmptyStr)
          [] cls = "GraphState" /\ k \in {"context", "results"}
                -> or_default(kwargs[k], EmptyDict)
          [] OTHER -> Missing]

\* cls(**kwargs): the error it raises, or the _data of the new instance
instantiate(cls, kwargs) ==
    IF cls \in Subtypes /\ \E k \in Fields : kwargs[k] # Missing /\ k \notin init_params(cls)
    THEN [error |-> TypeErrorRaised, data |-> NoKwargs]
    ELSE LET data == IF cls \in Subtypes THEN init_kwargs(cls, kwargs) ELSE kwargs
         IN IF validate_types_raises(cls, data)
            THEN [error |-> StateValidationError, data |-> NoKwargs]
            ELSE [error |-> None, data |-> data]

\* {**self._data, **kwargs}
merged(data, kwargs) ==
    [k \in Fields |-> IF kwargs[k] # Missing THEN kwargs[k] ELSE data[k]]

\* kwargs that bind one key
OneKwarg(key, value) == [NoKwargs EXCEPT ![key] = value]

\* What self.set(key, value) raises, or the _data of the instance it returns
set_returns(cls, data, key, value) ==
    IF type_hints(cls)[key] # "" /\ ~is_valid_type(value, type_hints(cls)[key])
    THEN [error |-> StateValidationError, data |-> NoKwargs]
    ELSE instantiate(cls, new_data(data, key, value))

\* What self.update(**kwargs) raises, or the _data of the instance it returns
update_returns(cls, data, kwargs) == instantiate(cls, merged(data, kwargs))

\* ------------------------------------------------ AgentState's lists
MaxElement == 2

\* A list by its content: the payload of <<"list", n>> reads, in base
\* ListBase, as the numbers of the list's elements (1 to ListBase - 1), the
\* last element in the lowest digit; [] is 0 and [e1] is 1
ListBase == 10

\* The dicts the callers add: {"role": .., "content": ..}, {"tool": ..,
\* "args": ..} and the steps
Elements == {<<"dict", e>> : e \in 1..MaxElement}

\* The list each method extends
AddOps == {"add_message", "add_tool_call", "add_intermediate_step"}
list_of(op) ==
    CASE op = "add_message" -> "messages"
      [] op = "add_tool_call" -> "tool_calls"
      [] op = "add_intermediate_step" -> "intermediate_steps"

inserted_first(list, element) ==
    LET length[n \in 0..list[2]] == IF n = 0 THEN 0 ELSE 1 + length[n \div ListBase]
        power[i \in 0..length[list[2]]] == IF i = 0 THEN 1 ELSE ListBase * power[i - 1]
    IN <<"list", element[2] * power[length[list[2]]] + list[2]>>

\* list + [element]
appended(list, element) == <<"list", list[2] * ListBase + element[2]>>

\* self.get(key, default), as the properties messages, tool_calls and
\* intermediate_steps call it
get_or(data, key, default) == IF data[key] = Missing THEN default ELSE data[key]

\* What AgentState.add_message / add_tool_call / add_intermediate_step on an
\* instance with _data `data` raises, or the _data of the instance it returns:
\* self.update(<list>=self.<list> + [element])
add_returns(data, op, element) ==
    update_returns("AgentState", data,
                   OneKwarg(list_of(op), appended(get_or(data, list_of(op), EmptyList), element)))

\* ------------------------------------------------------------ SimpleAgent
\* The messages by number: the user's message by what the agent makes of its
\* text, the assistant's by the length of its text
UserGreets == 1          \* "hello": no tool keyword, a greeting word
UserLeaves == 2          \* "bye": no tool keyword, a farewell word
UserAsksTool == 3        \* "calculate 2+2": a tool keyword and arguments
UserAsksFailingTool == 4 \* "calculate 1/0": the same, and the tool raises
AssistantLong == 5       \* an assistant message of more than 50 characters
AssistantShort == 6      \* an assistant message of at most 50 characters
UserMessages == {UserGreets, UserLeaves, UserAsksTool, UserAsksFailingTool}
AssistantMessages == {AssistantLong, AssistantShort}

\* The tool calls by number
CallsTool == 1           \* names a registered tool, which returns
CallsFailingTool == 2    \* names a registered tool, which raises
CallsUnregistered == 3   \* names a tool that is not in self.tools

\* The intermediate steps by number
ResultStep == 1          \* {"tool": .., "args": .., "result": ..}
ErrorStep == 2           \* {"tool": .., "args": .., "error": ..}

MaxIterations == 5

\* list[0], for a list that is not empty
RECURSIVE first_of(_)
first_of(n) == IF n < ListBase THEN n ELSE first_of(n \div ListBase)

\* list[-1], for a list that is not empty
last_of(n) == n % ListBase

\* [x for x in list if x in kinds]
RECURSIVE only(_, _)
only(n, kinds) ==
    IF n = 0 THEN 0
    ELSE IF last_of(n) \in kinds
         THEN only(n \div ListBase, kinds) * ListBase + last_of(n)
         ELSE only(n \div ListBase, kinds)

\* len(list)
RECURSIVE len(_)
len(n) == IF n = 0 THEN 0 ELSE 1 + len(n \div ListBase)

\* The properties of AgentState
messages(state) == get_or(state, "messages", EmptyList)[2]
tool_calls(state) == get_or(state, "tool_calls", EmptyList)[2]
intermediate_steps(state) == get_or(state, "intermediate_steps", EmptyList)[2]
is_complete_of(state) == get_or(state, "is_complete", FalseValue)

\* SimpleAgent._choose_tool on the user's text, with the arguments
\* _extract_tool_args finds: the tool call, 0 when no tool is chosen
choose_tool(user_input) ==
    CASE user_input = UserAsksTool -> CallsTool
      [] user_input = UserAsksFailingTool -> CallsFailingTool
      [] OTHER -> 0

\* SimpleAgent._analyze_input
analyze_input(state) ==
    IF messages(state) = 0 THEN state
    ELSE IF only(messages(state), UserMessages) = 0 THEN state
    ELSE LET tool_call == choose_tool(last_of(only(messages(state), UserMessages)))
         IN IF tool_call # 0
            THEN add_returns(state, "add_tool_call", <<"dict", tool_call>>).data
            ELSE state

use_tool_node_unrecorded(state) ==
    IF tool_calls(state) = 0 THEN state
    ELSE LET tool_call == first_of(tool_calls(state))
         IN IF tool_call = CallsTool
            THEN add_returns(state, "add_intermediate_step", <<"dict", ResultStep>>).data
            ELSE state

\* SimpleAgent._use_tool_node
use_tool_node(state) ==
    IF tool_calls(state) = 0 THEN state
    ELSE LET tool_call == first_of(tool_calls(state))
         IN IF tool_call # CallsUnregistered
            THEN IF tool_call = CallsTool
                 THEN add_returns(state, "add_intermediate_step",
                                  <<"dict", ResultStep>>).data
                 ELSE add_returns(state, "add_intermediate_step",
                                  <<"dict", ErrorStep>>).data
            ELSE state

\* SimpleAgent._generate_response: the response by its length. Every text is
\* longer than 50 characters but the answer to a farewell (49 characters)
generate_response(state) ==
    IF intermediate_steps(state) # 0 THEN AssistantLong
    ELSE IF messages(state) # 0 /\ last_of(messages(state)) = UserLeaves
    THEN AssistantShort
    ELSE AssistantLong

\* SimpleAgent._respond_node
respond_node(state) ==
    add_returns(state, "add_message", <<"dict", generate_response(state)>>).data

\* SimpleAgent._should_continue
should_continue(state) ==
    IF truthy(is_complete_of(state)) THEN FALSE
    ELSE IF len(only(messages(state), AssistantMessages)) >= MaxIterations THEN FALSE
    ELSE IF messages(state) # 0 /\ last_of(messages(state)) = AssistantLong THEN FALSE
    ELSE TRUE

\* SimpleAgent._check_complete_node
check_complete_node(state) ==
    update_returns("AgentState", state,
                   OneKwarg("is_complete",
                            IF should_continue(state) THEN FalseValue ELSE TrueValue)).data

\* edges.has_tool_calls()(state), for an AgentState
has_tool_calls(state) == len(tool_calls(state)) > 0

is_complete_called(state) == is_complete_of(state)

\* edges.is_complete(state): it returns its inner function `condition`, it
\* does not call it
is_complete(state) == <<"function", 1>>

\* The caller's node functions: the result of func(state), NoState when it raises.
ApplyFunc(func, state) ==
    CASE func = "incr" -> state + 1
      [] func = "fail" -> NoState
      [] func = "set_a" -> new_data(state, "a", 1)
      [] func = "set_b" -> new_data(state, "b", 2)
      [] func = "set_c" -> new_data(state, "c", 3)
      [] func = "set_b3" -> new_data(state, "b", 3)
      [] func = "_create_input_node" -> state
      [] func = "_analyze_input" -> analyze_input(state)
      [] func = "_use_tool_node" -> use_tool_node(state)
      [] func = "_respond_node" -> respond_node(state)
      [] func = "_check_complete_node" -> check_complete_node(state)
      [] func = "_create_output_node" -> state

\* The caller's predicates: the truth value of what the condition returns
ApplyCondition(condition, state) ==
    CASE condition = "is_even" -> state % 2 = 0
      [] condition = "b_equals_2" -> get(state, "b") = 2
      [] condition = "has_tool_calls()" -> has_tool_calls(state)
      [] condition = "logical_not(has_tool_calls())" -> ~has_tool_calls(state)
      [] condition = "is_complete" -> truthy(is_complete(state))
      [] condition = "logical_not(is_complete)" -> ~truthy(is_complete(state))

\* Edge.should_follow
should_follow(edge, state) ==
    IF edge.condition = None THEN TRUE ELSE ApplyCondition(edge.condition, state)

RECURSIVE next_nodes_from(_, _, _)
next_nodes_from(i, node, state) ==
    IF i > Len(edges) THEN <<>>
    ELSE IF edges[i].source = node /\ should_follow(edges[i], state)
         THEN <<edges[i].target>> \o next_nodes_from(i + 1, node, state)
         ELSE next_nodes_from(i + 1, node, state)

get_next_nodes_unconditional(node, state) ==
    LET from == SelectSeq(edges, LAMBDA edge : edge.source = node)
    IN [i \in 1..Len(from) |-> from[i].target]

\* Graph.get_next_nodes: the targets of the qualifying edges, in edge order
get_next_nodes(node, state) == next_nodes_from(1, node, state)

\* The condition calls get_next_nodes makes: one per conditional edge out of node
condition_calls(node, state) ==
    {<<i, state>> : i \in {j \in 1..Len(edges) :
                            edges[j].source = node /\ edges[j].condition # None}}

\* ---------------------------------------------------------------- Graph.__init__
Init ==
    /\ nodes = [n \in Names |-> None]
    /\ edges = <<>>
    /\ entry_point = None
    /\ pc = "idle"
    /\ current_state = NoState
    /\ current_node = None
    /\ visited_nodes = {}
    /\ call = None
    /\ raised = None
    /\ returned = NoState
    /\ log = <<>>
    /\ cond_log = {}
    /\ issues = {}
    /\ text = <<>>
    /\ frames = <<>>
    /\ no_states
    /\ no_services

\* ---------------------------------------------------------------- build operations
add_node_overwrites(name, func) ==
    /\ pc = "idle"
    /\ call' = "add_node"
    /\ log' = <<>>
    /\ cond_log' = {}
    /\ UNCHANGED <<pc, locals, edges>>
    /\ nodes' = [nodes EXCEPT ![name] = func]
    /\ returned' = NoState
    /\ IF nodes[name] # None
       THEN /\ raised' = NodeExistsError
            /\ UNCHANGED entry_point
       ELSE /\ entry_point' = IF entry_point = None THEN name ELSE entry_point
            /\ raised' = None

add_node_last_wins(name, func) ==
    /\ pc = "idle"
    /\ call' = "add_node"
    /\ log' = <<>>
    /\ cond_log' = {}
    /\ UNCHANGED <<pc, locals, edges>>
    /\ returned' = NoState
    /\ IF nodes[name] # None
       THEN /\ raised' = NodeExistsError
            /\ UNCHANGED <<nodes, entry_point>>
       ELSE /\ nodes' = [nodes EXCEPT ![name] = func]
            /\ entry_point' = name
            /\ raised' = None

\* Graph.add_node
add_node(name, func) ==
    /\ pc = "idle"
    /\ call' = "add_node"
    /\ log' = <<>>
    /\ cond_log' = {}
    /\ UNCHANGED <<pc, locals, edges>>
    /\ IF nodes[name] # None
       THEN /\ raised' = NodeExistsError
            /\ returned' = NoState
            /\ UNCHANGED <<nodes, entry_point>>
       ELSE /\ nodes' = [nodes EXCEPT ![name] = func]
            /\ entry_point' = IF entry_point = None THEN name ELSE entry_point
            /\ raised' = None
            /\ returned' = NoState

add_edge_target_only(source, target, condition) ==
    /\ pc = "idle"
    /\ target \in Registered => Len(edges) < MaxEdges
    /\ call' = "add_edge"
    /\ log' = <<>>
    /\ cond_log' = {}
    /\ returned' = NoState
    /\ UNCHANGED <<pc, locals, nodes, entry_point>>
    /\ IF nodes[target] = None
       THEN /\ raised' = TargetNotFoundError
            /\ UNCHANGED edges
       ELSE /\ edges' = Append(edges, [source |-> source, target |-> target,
                                       condition |-> condition])
            /\ raised' = None

add_edge_source_only(source, target, condition) ==
    /\ pc = "idle"
    /\ source \in Registered => Len(edges) < MaxEdges
    /\ call' = "add_edge"
    /\ log' = <<>>
    /\ cond_log' = {}
    /\ returned' = NoState
    /\ UNCHANGED <<pc, locals, nodes, entry_point>>
    /\ IF nodes[source] = None
       THEN /\ raised' = SourceNotFoundError
            /\ UNCHANGED edges
       ELSE /\ edges' = Append(edges, [source |-> source, target |-> target,
                                       condition |-> condition])
            /\ raised' = None

\* Graph.add_edge
add_edge(source, target, condition) ==
    /\ pc = "idle"
    /\ (source \in Registered /\ target \in Registered) => Len(edges) < MaxEdges
    /\ call' = "add_edge"
    /\ log' = <<>>
    /\ cond_log' = {}
    /\ UNCHANGED <<pc, locals, nodes, entry_point>>
    /\ IF nodes[source] = None
       THEN /\ raised' = SourceNotFoundError
            /\ returned' = NoState
            /\ UNCHANGED edges
       ELSE IF nodes[target] = None
       THEN /\ raised' = TargetNotFoundError
            /\ returned' = NoState
            /\ UNCHANGED edges
       ELSE /\ edges' = Append(edges, [source |-> source, target |-> target,
                                       condition |-> condition])
            /\ raised' = None
            /\ returned' = NoState

set_entry_point_unchecked(node_name) ==
    /\ pc = "idle"
    /\ call' = "set_entry_point"
    /\ log' = <<>>
    /\ cond_log' = {}
    /\ returned' = NoState
    /\ UNCHANGED <<pc, locals, nodes, edges>>
    /\ entry_point' = node_name
    /\ raised' = IF nodes[node_name] = None THEN NodeNotFoundError ELSE None

\* Graph.set_entry_point
set_entry_point(node_name) ==
    /\ pc = "idle"
    /\ call' = "set_entry_point"
    /\ log' = <<>>
    /\ cond_log' = {}
    /\ UNCHANGED <<pc, locals, nodes, edges>>
    /\ IF nodes[node_name] = None
       THEN /\ raised' = NodeNotFoundError
            /\ returned' = NoState
            /\ UNCHANGED entry_point
       ELSE /\ entry_point' = node_name
            /\ raised' = None
            /\ returned' = NoState

\* ---------------------------------------------------------------- Graph.execute
execute_begin_unchecked(initial_state) ==
    /\ pc = "idle"
    /\ call' = "execute"
    /\ log' = <<>>
    /\ cond_log' = {}
    /\ returned' = NoState
    /\ UNCHANGED graph
    /\ raised' = None
    /\ pc' = "running"
    /\ current_state' = initial_state
    /\ current_node' = entry_point
    /\ visited_nodes' = {}

\* The call up to its loop: the entry point check and the locals
execute_begin(initial_state) ==
    /\ pc = "idle"
    /\ call' = "execute"
    /\ log' = <<>>
    /\ cond_log' = {}
    /\ returned' = NoState
    /\ UNCHANGED graph
    /\ IF entry_point = None
       THEN /\ raised' = NoEntryPointError
            /\ UNCHANGED <<pc, locals>>
       ELSE /\ raised' = None
            /\ pc' = "running"
            /\ current_state' = initial_state
            /\ current_node' = entry_point
            /\ visited_nodes' = {}

\* The call's frame is dropped: it raised (error given) or returned (state given)
Finish(error, state) ==
    /\ pc' = "idle"
    /\ raised' = error
    /\ returned' = state
    /\ current_state' = NoState
    /\ current_node' = None
    /\ visited_nodes' = {}

raise_cycle_returns == Finish(None, current_state)

\* The revisit of a node: raise ValueError("Cycle detected ...")
raise_cycle == Finish(CycleError, NoState)

mark_visited_forgets(visited, node) == visited

\* visited_nodes.add(current_node)
mark_visited(visited, node) == visited \cup {node}

edge_state_input(input, output) == input

\* The state handed to get_next_nodes: current_state after the node's result
\* was assigned to it
edge_state(input, output) == output

traversal_complete_input(input, output) == Finish(None, input)

\* The break out of the loop and the return of current_state
traversal_complete(input, output) == Finish(None, output)

choose_next_last(next_nodes) == next_nodes[Len(next_nodes)]

\* current_node = next_nodes[0]
choose_next(next_nodes) == next_nodes[1]

execute_step_swallows ==
    /\ pc = "running"
    /\ UNCHANGED <<graph, call>>
    /\ IF current_node \in visited_nodes
       THEN /\ raise_cycle
            /\ cond_log' = {}
            /\ UNCHANGED log
       ELSE LET result == ApplyFunc(nodes[current_node], current_state)
                out == IF result = NoState THEN current_state ELSE result
                next_nodes == get_next_nodes(current_node, out)
            IN /\ log' = Append(log, [node |-> current_node,
                                      input |-> current_state, output |-> result])
               /\ cond_log' = condition_calls(current_node, out)
               /\ IF next_nodes = <<>>
                  THEN Finish(None, out)
                  ELSE /\ current_state' = out
                       /\ visited_nodes' = mark_visited(visited_nodes, current_node)
                       /\ current_node' = choose_next(next_nodes)
                       /\ UNCHANGED <<pc, raised, returned>>

\* One iteration of the while loop, up to the raise, the break or the next node
execute_step ==
    /\ pc = "running"
    /\ UNCHANGED <<graph, call>>
    /\ IF current_node = None
       THEN /\ Finish(None, current_state)
            /\ cond_log' = {}
            /\ UNCHANGED log
       ELSE IF current_node \in visited_nodes
       THEN /\ raise_cycle
            /\ cond_log' = {}
            /\ UNCHANGED log
       ELSE IF nodes[current_node] = None
       THEN /\ Finish(NodeNotFoundError, NoState)
            /\ cond_log' = {}
            /\ UNCHANGED log
       ELSE LET out == ApplyFunc(nodes[current_node], current_state)
                next_nodes == get_next_nodes(current_node,
                                             edge_state(current_state, out))
            IN /\ log' = Append(log, [node |-> current_node,
                                      input |-> current_state, output |-> out])
               /\ IF out = NoState
                  THEN /\ Finish(NodeFuncError, NoState)
                       /\ cond_log' = {}
                  ELSE /\ cond_log' = condition_calls(current_node,
                                                      edge_state(current_state, out))
                       /\ IF next_nodes = <<>>
                          THEN traversal_complete(current_state, out)
                          ELSE /\ current_state' = out
                               /\ visited_nodes' = mark_visited(visited_nodes, current_node)
                               /\ current_node' = choose_next(next_nodes)
                               /\ UNCHANGED <<pc, raised, returned>>

\* ---------------------------------------------------------------- Graph.validate
NoNodesIssue == "Graph has no nodes"
NoEntryPointIssue == "Graph has no entry point"
EntryPointNotFoundIssue == "Entry point not found in nodes"
OrphanIssue == "Node has no incoming edges and is not entry point"
EdgeSourceIssue == "Edge source not found"
EdgeTargetIssue == "Edge target not found"

\* An issue string: its text and the name formatted into it (None when none is)
Issue(message, name) == [message |-> message, name |-> name]

nodes_with_unguarded_incoming_edges ==
    {entry_point} \cup {edges[i].target : i \in {j \in 1..Len(edges) :
                                                   edges[j].condition = None}}

\* validate's nodes_with_incoming_edges: the entry point and every edge's target
nodes_with_incoming_edges ==
    {entry_point} \cup {edges[i].target : i \in 1..Len(edges)}

orphaned_nodes_with_entry ==
    {n \in Registered : n \notin {edges[i].target : i \in 1..Len(edges)}}

\* The nodes validate reports as orphans
orphaned_nodes ==
    {n \in Registered : n \notin nodes_with_incoming_edges /\ n # entry_point}

\* The list validate returns, as the set of its issues (the order of the
\* orphan issues is the registration order of the nodes, which is not kept here)
validate_issues ==
    (IF Registered = {} THEN {Issue(NoNodesIssue, None)} ELSE {})
    \cup (IF entry_point = None THEN {Issue(NoEntryPointIssue, None)}
          ELSE IF entry_point \notin Registered
               THEN {Issue(EntryPointNotFoundIssue, entry_point)}
               ELSE {})
    \cup {Issue(OrphanIssue, n) : n \in orphaned_nodes}
    \cup {Issue(EdgeSourceIssue, edges[i].source) :
              i \in {j \in 1..Len(edges) : edges[j].source \notin Registered}}
    \cup {Issue(EdgeTargetIssue, edges[i].target) :
              i \in {j \in 1..Len(edges) : edges[j].target \notin Registered}}

validate_drops_orphans ==
    /\ pc = "idle"
    /\ call' = "validate"
    /\ raised' = None
    /\ returned' = NoState
    /\ log' = <<>>
    /\ cond_log' = {}
    /\ issues' = validate_issues
    /\ text' = <<>>
    /\ nodes' = [n \in Names |-> IF n \in orphaned_nodes THEN None ELSE nodes[n]]
    /\ UNCHANGED <<edges, entry_point, pc, locals>>

\* Graph.validate
validate ==
    /\ pc = "idle"
    /\ call' = "validate"
    /\ raised' = None
    /\ returned' = NoState
    /\ log' = <<>>
    /\ cond_log' = {}
    /\ issues' = validate_issues
    /\ text' = <<>>
    /\ UNCHANGED <<graph, pc, locals>>

\* ---------------------------------------------------------------- Graph.visualize
\* The text visualize returns: "Empty graph", or the dump of the entry point,
\* the node names (a set here) and the edges in the order they were added
visualize_text ==
    IF Registered = {} THEN <<"Empty graph">>
    ELSE <<[entry_point |-> entry_point,
            nodes |-> Registered,
            edges |-> [i \in 1..Len(edges) |->
                          <<edges[i].source, edges[i].target, edges[i].condition>>]]>>

\* Graph.visualize
visualize ==
    /\ pc = "idle"
    /\ call' = "visualize"
    /\ raised' = None
    /\ returned' = NoState
    /\ log' = <<>>
    /\ cond_log' = {}
    /\ issues' = {}
    /\ text' = visualize_text
    /\ UNCHANGED <<graph, pc, locals>>

\* ---------------------------------------------------------------- the graph's callers
\* A call other than validate and visualize returns neither issues nor text
no_report == issues' = {} /\ text' = <<>> /\ UNCHANGED <<frames, schema, services>>

Next ==
    \/ \E name \in Names, func \in NodeFuncs : add_node(name, func) /\ no_report
    \/ \E source \in Names, target \in Names, condition \in Conditions :
          add_edge(source, target, condition) /\ no_report
    \/ \E node_name \in Names : set_entry_point(node_name) /\ no_report
    \/ \E initial_state \in InitialStates : execute_begin(initial_state) /\ no_report
    \/ execute_step /\ no_report
    \/ validate /\ UNCHANGED <<frames, schema, services>>
    \/ visualize /\ UNCHANGED <<frames, schema, services>>

Spec == Init /\ [][Next]_vars

\* The callers that never call set_entry_point
NextNoSetEntryPoint ==
    \/ \E name \in Names, func \in NodeFuncs : add_node(name, func) /\ no_report
    \/ \E source \in Names, target \in Names, condition \in Conditions :
          add_edge(source, target, condition) /\ no_report
    \/ \E initial_state \in InitialStates : execute_begin(initial_state) /\ no_report
    \/ execute_step /\ no_report
    \/ validate /\ UNCHANGED <<frames, schema, services>>
    \/ visualize /\ UNCHANGED <<frames, schema, services>>

SpecNoSetEntryPoint == Init /\ [][NextNoSetEntryPoint]_vars

\* ---------------------------------------------------------------- execute calls side by side
\* The calls of Graph.execute that share one built graph, each with its own
\* frame: pc ("ready", "running", "returned", "raised"), the initial state, the
\* locals current_state, current_node and visited_nodes, the nodes it executed
\* (trace) and the error it raised.
Runs == {1, 2}
RunNames == {"A", "B"}

NewFrame ==
    [pc |-> "ready", initial |-> NoState, state |-> NoState, node |-> None,
     visited |-> {}, trace |-> <<>>, error |-> None]

RECURSIVE SeqsUpTo(_, _)
SeqsUpTo(S, n) ==
    IF n = 0 THEN {<<>>}
    ELSE LET shorter == SeqsUpTo(S, n - 1)
         IN shorter \cup {Append(q, x) : q \in {p \in shorter : Len(p) = n - 1}, x \in S}

\* A graph the build operations can leave, with nodes among the names given:
\* the entry point is a registered node (None only without nodes), the edges
\* join registered nodes; no call is in progress
InitBuilt(names) ==
    /\ nodes \in {table \in [Names -> NodeFuncs \cup {None}] :
                     \A n \in Names \ names : table[n] = None}
    /\ entry_point \in (IF Registered = {} THEN {None} ELSE Registered)
    /\ edges \in SeqsUpTo([source : Registered, target : Registered,
                           condition : Conditions], MaxEdges)
    /\ pc = "idle"
    /\ current_state = NoState
    /\ current_node = None
    /\ visited_nodes = {}
    /\ call = None
    /\ raised = None
    /\ returned = NoState
    /\ log = <<>>
    /\ cond_log = {}
    /\ issues = {}
    /\ text = <<>>

InitRuns ==
    /\ InitBuilt(RunNames)
    /\ frames = [r \in Runs |-> NewFrame]
    /\ no_states
    /\ no_services

\* The call's node function raises on the state (Node.execute re-raises)
raises(func, state) == func = "fail"

fresh_visited_retained(r) == UNION {frames[o].visited : o \in Runs \ {r}}

\* visited_nodes: Set[str] = set()
fresh_visited(r) == {}

visited_of_any(r) == UNION {frames[o].visited : o \in Runs}

\* The visited_nodes the call r reads
visited_of(r) == frames[r].visited

state_of_first(r) == frames[1].state

\* The current_state the call r reads
state_of(r) == frames[r].state

\* Graph.execute of call r up to its loop
run_begin(r, initial_state) ==
    /\ frames[r].pc = "ready"
    /\ frames' = [frames EXCEPT ![r] =
          IF entry_point = None
          THEN [@ EXCEPT !.pc = "raised", !.initial = initial_state,
                         !.error = NoEntryPointError]
          ELSE [@ EXCEPT !.pc = "running", !.initial = initial_state,
                         !.state = initial_state, !.node = entry_point,
                         !.visited = fresh_visited(r)]]

\* One iteration of the while loop of call r
run_step(r) ==
    /\ frames[r].pc = "running"
    /\ LET f == frames[r]
           func == nodes[f.node]
           out == ApplyFunc(func, state_of(r))
           next_nodes == get_next_nodes(f.node, edge_state(state_of(r), out))
       IN frames' = [frames EXCEPT ![r] =
             IF f.node \in visited_of(r)
             THEN [@ EXCEPT !.pc = "raised", !.error = CycleError]
             ELSE IF func = None
             THEN [@ EXCEPT !.pc = "raised", !.error = NodeNotFoundError]
             ELSE IF raises(func, state_of(r))
             THEN [@ EXCEPT !.pc = "raised", !.error = NodeFuncError,
                            !.trace = Append(@, f.node)]
             ELSE IF next_nodes = <<>>
             THEN [@ EXCEPT !.pc = "returned", !.state = out,
                            !.trace = Append(@, f.node)]
             ELSE [@ EXCEPT !.state = out,
                            !.trace = Append(@, f.node),
                            !.visited = mark_visited(@, f.node),
                            !.node = choose_next(next_nodes)]]

single_frame == <<pc, locals, call, raised, returned, log, cond_log, reports>>

\* The calls interleave at the grain of a loop iteration
NextConcurrent ==
    \/ \E r \in Runs, initial_state \in InitialStates :
          run_begin(r, initial_state) /\ UNCHANGED <<graph, single_frame, schema, services>>
    \/ \E r \in Runs : run_step(r) /\ UNCHANGED <<graph, single_frame, schema, services>>

SpecConcurrent == InitRuns /\ [][NextConcurrent]_vars

Ended(r) == frames[r].pc \in {"returned", "raised"}

\* The second call comes after the first has ended
NextSequential ==
    \/ \E initial_state \in InitialStates :
          run_begin(1, initial_state) /\ UNCHANGED <<graph, single_frame, schema, services>>
    \/ \E initial_state \in InitialStates :
          /\ Ended(1)
          /\ run_begin(2, initial_state)
          /\ UNCHANGED <<graph, single_frame, schema, services>>
    \/ \E r \in Runs : run_step(r) /\ UNCHANGED <<graph, single_frame, schema, services>>

SpecSequential == InitRuns /\ [][NextSequential]_vars

\* One execute call on a built graph
NextOneRun ==
    \/ \E initial_state \in InitialStates :
          run_begin(1, initial_state) /\ UNCHANGED <<graph, single_frame, schema, services>>
    \/ run_step(1) /\ UNCHANGED <<graph, single_frame, schema, services>>

\* The call, once made, runs its loop on: the node functions and the
\* predicates all return
FairOneRun == InitRuns /\ [][NextOneRun]_vars /\ WF_vars(NextOneRun)

\* ---------------------------------------------------------------- properties
TypeOK ==
    /\ nodes \in [Names -> NodeFuncs \cup {None}]
    /\ Len(edges) <= MaxEdges
    /\ entry_point \in Names \cup {None}
    /\ pc \in {"idle", "running"}

\* An execute call has ended (returned or raised) and nothing was called since
Finished == pc = "idle" /\ call = "execute"

LogNodes == [i \in 1..Len(log) |-> log[i].node]
LastRun == log[Len(log)]

\* The edge qualifies on the state: it has no condition, or its condition holds
Qualifies(edge, state) ==
    \/ edge.condition = None
    \/ edge.condition = "is_even" /\ state % 2 = 0

QualifyingEdges(node, state) ==
    {i \in 1..Len(edges) : edges[i].source = node /\ Qualifies(edges[i], state)}

Earliest(S) == CHOOSE i \in S : \A j \in S : i <= j

EdgeFromTo(source, target) ==
    edges[CHOOSE i \in 1..Len(edges) :
              edges[i].source = source /\ edges[i].target = target]

\* The graph of C1: nodes A and B whose functions return, the two edges
\* A->B and B->A (with any conditions, added in any order), entry point A
CycleAB ==
    /\ nodes["A"] = "incr"
    /\ nodes["B"] = "incr"
    /\ entry_point = "A"
    /\ Len(edges) = 2
    /\ \E i, j \in 1..2 :
          /\ edges[i].source = "A" /\ edges[i].target = "B"
          /\ edges[j].source = "B" /\ edges[j].target = "A"

\* C1 as stated: on the graph A->B, B->A with entry point A, every execute
\* call ends with the cycle error after running A once and then B once,
\* whatever the conditions of the two edges are.
C1_CycleWhateverThePredicates ==
    (CycleAB /\ Finished) => (raised = CycleError /\ LogNodes = <<"A", "B">>)

\* C1 amended: on the graph A->B, B->A with entry point A, execute runs A
\* first; if A->B does not qualify on A's output it returns that output after
\* running A alone; otherwise it runs B, and if B->A does not qualify on B's
\* output it returns that output; only when both edges qualify does it raise
\* the cycle error, having run A once and then B once, and returns no state.
C1_CycleWhenBothEdgesQualify ==
    (CycleAB /\ Finished) =>
        /\ Len(log) >= 1
        /\ log[1].node = "A"
        /\ IF ~Qualifies(EdgeFromTo("A", "B"), log[1].output)
           THEN raised = None /\ Len(log) = 1 /\ returned = log[1].output
           ELSE /\ LogNodes = <<"A", "B">>
                /\ IF Qualifies(EdgeFromTo("B", "A"), log[2].output)
                   THEN raised = CycleError /\ returned = NoState
                   ELSE raised = None /\ returned = log[2].output

C1_Witness ==
    /\ CycleAB
    /\ Finished
    /\ raised = CycleError
    /\ LogNodes = <<"A", "B">>
    /\ EdgeFromTo("A", "B").condition # None

\* C2: within one execute call no node's function is called twice, and an
\* iteration that finds its current node in visited_nodes ends the call with
\* the cycle error, without calling the node and without a returned state.
C2_NodeRunsAtMostOnce ==
    /\ [](\A i, j \in 1..Len(log) : i # j => log[i].node # log[j].node)
    /\ [][(pc = "running" /\ current_node \in visited_nodes) =>
              /\ pc' = "idle"
              /\ raised' = CycleError
              /\ returned' = NoState
              /\ log' = log]_vars

C2_Witness ==
    /\ Finished
    /\ raised = CycleError
    /\ returned = NoState
    /\ Len(log) = 2
    /\ LastRun.node # entry_point

\* C3: when a node has run and more than one of its outgoing edges qualifies
\* on its output, the traversal moves to the target of the edge that was added
\* first among them.
C3_FirstAddedEdgeWins ==
    [][(pc = "running" /\ Len(log') = Len(log) + 1) =>
          LET ran == log'[Len(log')]
              q == QualifyingEdges(ran.node, ran.output)
          IN (ran.output # NoState /\ Cardinality(q) > 1) =>
                 /\ pc' = "running"
                 /\ current_node' = edges[Earliest(q)].target]_vars

C3_Witness ==
    /\ pc = "running"
    /\ Len(log) >= 1
    /\ LET q == QualifyingEdges(LastRun.node, LastRun.output)
       IN /\ Cardinality(q) > 1
          /\ \A i \in q : edges[i].condition = None
          /\ \E i \in q : edges[i].target # edges[Earliest(q)].target
          /\ current_node = edges[Earliest(q)].target

\* C4: execute returns a state exactly in an iteration whose node ran and left
\* no outgoing edge qualifying on its output, and the state returned is that
\* output; when the entry point has no outgoing edge the call returns the
\* entry node's output after that one node execution.
C4_ReturnsWhenNoEdgeQualifies ==
    /\ [][pc = "running" =>
              LET ran == Len(log') = Len(log) + 1 /\ log'[Len(log')].output # NoState
                  ok == pc' = "idle" /\ raised' = None
              IN /\ ok => /\ ran
                          /\ QualifyingEdges(log'[Len(log')].node,
                                             log'[Len(log')].output) = {}
                          /\ returned' = log'[Len(log')].output
                 /\ (ran /\ QualifyingEdges(log'[Len(log')].node,
                                            log'[Len(log')].output) = {}) => ok]_vars
    /\ []((/\ Finished
           /\ entry_point # None
           /\ nodes[entry_point] = "incr"
           /\ \A i \in 1..Len(edges) : edges[i].source # entry_point) =>
              /\ raised = None
              /\ LogNodes = <<entry_point>>
              /\ returned = log[1].output
              /\ returned = log[1].input + 1)

C4_Witness ==
    /\ Finished
    /\ raised = None
    /\ Len(log) = 2
    /\ returned = LastRun.output
    /\ \E i \in 1..Len(edges) : edges[i].source = LastRun.node

\* C5: every condition called in a loop iteration belongs to an outgoing edge
\* of the node that iteration ran and is called on the state that node's
\* function returned.
C5_PredicatesSeePostNodeState ==
    \A c \in cond_log :
        /\ Len(log) >= 1
        /\ edges[c[1]].source = LastRun.node
        /\ c[2] = LastRun.output

C5_Witness ==
    /\ cond_log # {}
    /\ \A c \in cond_log : c[2] = LastRun.output /\ c[2] # LastRun.input
    /\ Qualifies(edges[(CHOOSE c \in cond_log : TRUE)[1]], LastRun.output)
           # Qualifies(edges[(CHOOSE c \in cond_log : TRUE)[1]], LastRun.input)

\* C6: an execute call on a graph without entry point ends at once with the
\* no-entry-point error: no node function has been called and no state is
\* returned.
C6_NoEntryPointFailsFirst ==
    (call = "execute" /\ entry_point = None) =>
        /\ pc = "idle"
        /\ raised = NoEntryPointError
        /\ log = <<>>
        /\ returned = NoState

C6_Witness ==
    /\ call = "execute"
    /\ entry_point = None
    /\ raised = NoEntryPointError
    /\ log = <<>>

\* C7: add_node with a registered name raises the already-exists error and
\* leaves the node table (the function bound to the name too), the edge list
\* and the entry point as they were.
C7_DuplicateAddNodeRaises ==
    [][\A name \in Names, func \in NodeFuncs :
          (call' = "add_node" /\ nodes[name] # None /\ add_node(name, func)) =>
              /\ raised' = NodeExistsError
              /\ nodes' = nodes
              /\ edges' = edges
              /\ entry_point' = entry_point]_vars

C7_Witness ==
    /\ call = "add_node"
    /\ raised = NodeExistsError
    /\ Registered # {}
    /\ edges # <<>>

\* C8: add_edge raises when its source is not registered, and otherwise when
\* its target is not registered, and then the edge list is as it was; when
\* both are registered the edge list becomes the old list followed by the new
\* edge.
C8_AddEdgeChecksBothEnds ==
    [][call' = "add_edge" =>
       \A source \in Names, target \in Names, condition \in Conditions :
          add_edge(source, target, condition) =>
              IF nodes[source] = None \/ nodes[target] = None
              THEN /\ raised' = IF nodes[source] = None
                                THEN SourceNotFoundError ELSE TargetNotFoundError
                   /\ edges' = edges
              ELSE /\ raised' = None
                   /\ edges' = edges \o <<[source |-> source, target |-> target,
                                           condition |-> condition]>>]_vars

C8_Witness ==
    /\ call = "add_edge"
    /\ raised = TargetNotFoundError
    /\ edges # <<>>

\* C9: set_entry_point with an unregistered name raises the not-found error
\* and leaves the entry point as it was; with a registered name it makes that
\* name the entry point.
C9_SetEntryPointChecksName ==
    [][\A node_name \in Names :
          (call' = "set_entry_point" /\ set_entry_point(node_name)) =>
              IF nodes[node_name] = None
              THEN raised' = NodeNotFoundError /\ entry_point' = entry_point
              ELSE raised' = None /\ entry_point' = node_name]_vars

C9_Witness ==
    /\ call = "set_entry_point"
    /\ raised = NodeNotFoundError
    /\ entry_point # None

\* C10: the entry point is unset exactly while no node was ever added; the
\* add_node that registers the first node makes it the entry point, a
\* set_entry_point with a registered name makes that name the entry point, and
\* no other step (a later add_node, an add_edge, a failed call, an execute)
\* changes the entry point.
C10_EntryPointFirstOrLastSet ==
    /\ [](entry_point = None <=> Registered = {})
    /\ [][/\ \A name \in Names, func \in NodeFuncs :
                (call' = "add_node" /\ Registered = {} /\ add_node(name, func)) =>
                    entry_point' = name
          /\ \A node_name \in Names :
                (/\ call' = "set_entry_point"
                 /\ nodes[node_name] # None
                 /\ set_entry_point(node_name)) => entry_point' = node_name
          /\ entry_point' # entry_point =>
                \/ \E name \in Names, func \in NodeFuncs :
                      Registered = {} /\ add_node(name, func)
                \/ \E node_name \in Names :
                      nodes[node_name] # None /\ set_entry_point(node_name)]_vars

C10_Witness ==
    /\ call = "add_node"
    /\ raised = None
    /\ Cardinality(Registered) = 3
    /\ edges # <<>>
    /\ entry_point \in Registered

\* The test of an issue's text for the words "entry point" (the dangling entry
\* point issue starts with a capital E and does not contain them)
mentions_entry_point(issue) ==
    issue.message \in {NoEntryPointIssue, OrphanIssue}

C12_NoIssuesIffWellFormed ==
    call = "validate" =>
        (issues = {} <=>
            /\ \E n \in Names : nodes[n] # None
            /\ entry_point # None
            /\ nodes[entry_point] # None
            /\ \A i \in 1..Len(edges) :
                  nodes[edges[i].source] # None /\ nodes[edges[i].target] # None
            /\ \A n \in Names :
                  (nodes[n] # None /\ n # entry_point) =>
                      \E i \in 1..Len(edges) : edges[i].target = n)

C12_Witness ==
    /\ call = "validate"
    /\ issues = {}
    /\ Cardinality(Registered) = 3
    /\ \A i \in 1..Len(edges) : edges[i].condition # None

\* C13: validate and visualize change neither the node table, the edge list
\* and the entry point nor the state of an execute call, so the graph an
\* execute call finds is the one the build operations left.
C13_DiagnosticsChangeNothing ==
    [][(call' \in {"validate", "visualize"} /\ (validate \/ visualize)) =>
          /\ nodes' = nodes
          /\ edges' = edges
          /\ entry_point' = entry_point
          /\ UNCHANGED <<pc, locals>>]_vars

C13_Witness ==
    /\ call = "validate"
    /\ issues # {}
    /\ edges # <<>>
    /\ Cardinality(Registered) >= 2

\* ------------------------------------------------- execute on chains of nodes
\* Node functions that set a key and a predicate that reads one
ChainFuncs == {"set_a", "set_b", "set_c", "set_b3"}
ChainConditions == {None, "b_equals_2"}
ChainInitialStates ==
    {EmptyState, new_data(EmptyState, "b", 2), new_data(EmptyState, "a", 3)}

\* The orders in which add_node can register some of the names
Chains == {c \in SeqsUpTo(Names, Cardinality(Names)) :
              /\ Len(c) >= 1
              /\ \A i, j \in 1..Len(c) : c[i] = c[j] => i = j}

\* The graph after add_node for each name of the chain, in chain order (the
\* first one becomes the entry point), and add_edge for each link of the chain
InitChain ==
    /\ \E c \in Chains :
          /\ nodes \in {t \in [Names -> ChainFuncs \cup {None}] :
                           \A n \in Names :
                               t[n] = None <=> \A i \in 1..Len(c) : c[i] # n}
          /\ entry_point = c[1]
          /\ edges \in {e \in [1..(Len(c) - 1) ->
                                  [source : Names, target : Names,
                                   condition : ChainConditions]] :
                           \A i \in 1..(Len(c) - 1) :
                               e[i].source = c[i] /\ e[i].target = c[i + 1]}
    /\ pc = "idle"
    /\ current_state = NoState
    /\ current_node = None
    /\ visited_nodes = {}
    /\ call = None
    /\ raised = None
    /\ returned = NoState
    /\ log = <<>>
    /\ cond_log = {}
    /\ issues = {}
    /\ text = <<>>
    /\ frames = [r \in Runs |-> NewFrame]
    /\ no_states
    /\ no_services

\* One execute call on the chain
NextChain ==
    \/ \E initial_state \in ChainInitialStates :
          run_begin(1, initial_state) /\ UNCHANGED <<graph, single_frame, schema, services>>
    \/ run_step(1) /\ UNCHANGED <<graph, single_frame, schema, services>>

SpecChain == InitChain /\ [][NextChain]_vars

\* ------------------------------------------------------------ StateSchema
MaxStates == 2

\* The instances, by identity
Ids == 1..Len(heap)

eq_data_only(a, b) == heap[a].data = heap[b].data

\* StateSchema.__eq__
eq(a, b) ==
    /\ heap[a].cls = "StateSchema" \/ heap[b].cls = heap[a].cls
    /\ heap[a].data = heap[b].data

\* a == b: when type(b) is a proper subclass of type(a), b.__eq__(a) is tried
\* first (and never returns NotImplemented)
equals(a, b) ==
    IF heap[b].cls # heap[a].cls /\ heap[a].cls = "StateSchema"
    THEN eq(b, a)
    ELSE eq(a, b)

\* The call op(self, **kwargs) raises made.error, or returns a new instance of
\* cls with made.data
returns(op, self, kwargs, cls, made) ==
    IF made.error # None
    THEN /\ heap' = heap
         /\ last' = [op |-> op, self |-> self, kwargs |-> kwargs, result |-> 0,
                     error |-> made.error]
    ELSE /\ heap' = Append(heap, [cls |-> cls, data |-> made.data])
         /\ last' = [op |-> op, self |-> self, kwargs |-> kwargs,
                     result |-> Len(heap) + 1, error |-> None]

\* StateSchema.__init__ and the subclasses' __init__: cls(**kwargs)
construct(op, self, cls, kwargs) ==
    /\ Len(heap) < MaxStates
    /\ returns(op, self, kwargs, cls, instantiate(cls, kwargs))

set_in_place(self, key, value) ==
    /\ Len(heap) < MaxStates
    /\ heap' = [heap EXCEPT ![self].data = new_data(@, key, value)]
    /\ last' = [op |-> "set", self |-> self, kwargs |-> OneKwarg(key, value),
                result |-> self, error |-> None]

set_unchecked(self, key, value) ==
    /\ Len(heap) < MaxStates
    /\ heap' = Append(heap, [cls |-> heap[self].cls,
                             data |-> new_data(heap[self].data, key, value)])
    /\ last' = [op |-> "set", self |-> self, kwargs |-> OneKwarg(key, value),
                result |-> Len(heap) + 1, error |-> None]

\* StateSchema.set
set(self, key, value) ==
    /\ Len(heap) < MaxStates
    /\ returns("set", self, OneKwarg(key, value), heap[self].cls,
               set_returns(heap[self].cls, heap[self].data, key, value))

update_stores_first(self, kwargs) ==
    /\ Len(heap) < MaxStates
    /\ LET data == merged(heap[self].data, kwargs)
       IN IF validate_types_raises(heap[self].cls, data)
          THEN /\ heap' = [heap EXCEPT ![self].data = data]
               /\ last' = [op |-> "update", self |-> self, kwargs |-> kwargs,
                           result |-> 0, error |-> StateValidationError]
          ELSE /\ heap' = Append(heap, [cls |-> heap[self].cls, data |-> data])
               /\ last' = [op |-> "update", self |-> self, kwargs |-> kwargs,
                           result |-> Len(heap) + 1, error |-> None]

\* StateSchema.update
update(self, kwargs) ==
    /\ Len(heap) < MaxStates
    /\ returns("update", self, kwargs, heap[self].cls,
               update_returns(heap[self].cls, heap[self].data, kwargs))

\* StateSchema.to_dict: a copy of the bindings
to_dict(self) == heap[self].data

\* type(self).from_dict(self.to_dict()): the class has no attribute from_dict
from_dict(self) ==
    /\ Len(heap) < MaxStates
    /\ heap' = heap
    /\ last' = [op |-> "from_dict", self |-> self, kwargs |-> to_dict(self),
                result |-> 0, error |-> AttributeErrorRaised]

NextState ==
    \/ \E cls \in Classes, kwargs \in Kwargs :
          construct("init", 0, cls, kwargs) /\ UNCHANGED <<graph, single_frame, frames, services>>
    \/ \E self \in Ids, key \in TestFields, value \in Values :
          set(self, key, value) /\ UNCHANGED <<graph, single_frame, frames, services>>
    \/ \E self \in Ids, kwargs \in Kwargs :
          update(self, kwargs) /\ UNCHANGED <<graph, single_frame, frames, services>>
    \/ \E self \in Ids :
          from_dict(self) /\ UNCHANGED <<graph, single_frame, frames, services>>

SpecState == Init /\ [][NextState]_vars

\* ------------------------------------------------- AgentState and GraphState
\* The keys the callers pass: two declared fields of the class and one key it
\* does not declare
SubtypeKeys(cls) ==
    CASE cls = "AgentState" -> {"messages", "is_complete", "output"}
      [] cls = "GraphState" -> {"context", "current_node", "output"}

\* The values the callers pass for a key: values of the declared type and
\* values of another type, true and false ones
InputValues(cls, key) ==
    CASE key = "messages" -> {EmptyList, OneList, EmptyStr, SomeStr}
      [] key = "is_complete" -> {FalseValue, TrueValue, EmptyStr}
      [] key = "context" -> {EmptyDict, OneDict, EmptyList, SomeStr}
      [] key = "current_node" -> {EmptyStr, SomeStr, EmptyList}
      [] key = "output" -> {SomeStr}

SubtypeKwargs(cls) ==
    {[k \in Fields |-> IF k \in SubtypeKeys(cls) THEN f[k] ELSE Missing] :
        f \in {g \in [SubtypeKeys(cls) -> {EmptyList, OneList, EmptyDict, OneDict,
                                           EmptyStr, SomeStr, FalseValue, TrueValue,
                                           Missing}] :
                 \A k \in SubtypeKeys(cls) :
                     g[k] \in InputValues(cls, k) \cup {Missing}}}

\* The calls on instances of one subclass
NextSubtypes ==
    \/ \E cls \in Subtypes :
          /\ IF heap = <<>> THEN TRUE ELSE heap[1].cls = cls
          /\ \E kwargs \in SubtypeKwargs(cls) :
                construct("init", 0, cls, kwargs)
                /\ UNCHANGED <<graph, single_frame, frames, services>>
    \/ \E self \in Ids :
          \E key \in SubtypeKeys(heap[self].cls) :
             \E value \in InputValues(heap[self].cls, key) :
                set(self, key, value) /\ UNCHANGED <<graph, single_frame, frames, services>>
    \/ \E self \in Ids :
          \E kwargs \in SubtypeKwargs(heap[self].cls) :
             update(self, kwargs) /\ UNCHANGED <<graph, single_frame, frames, services>>

SpecSubtypes == Init /\ [][NextSubtypes]_vars

\* ------------------------------------------------ AgentState's three lists
MaxAgentStates == 3
\* AgentState.add_message, add_tool_call, add_intermediate_step
add(op, self, element) ==
    /\ Len(heap) < MaxAgentStates
    /\ heap[self].cls = "AgentState"
    /\ returns(op, self, OneKwarg(list_of(op), element), "AgentState",
               add_returns(heap[self].data, op, element))

\* The arguments the callers construct an AgentState with
AgentKwargs ==
    {[NoKwargs EXCEPT !["messages"] = m, !["is_complete"] = c] :
        m \in {Missing, EmptyList, OneList}, c \in {Missing, FalseValue, TrueValue}}

NextAgentState ==
    \/ \E kwargs \in AgentKwargs :
          construct("init", 0, "AgentState", kwargs)
          /\ UNCHANGED <<graph, single_frame, frames, services>>
    \/ \E op \in AddOps, self \in Ids, element \in Elements :
          add(op, self, element) /\ UNCHANGED <<graph, single_frame, frames, services>>

SpecAgentState == Init /\ [][NextAgentState]_vars

\* ------------------------------------------------- SimpleAgent.create_graph
\* The nodes in the order create_graph adds them, with their functions
AgentNodes == {"input", "analyze", "use_tool", "respond", "check_complete", "output"}
AgentNodeFuncs ==
    [n \in AgentNodes |->
        CASE n = "input" -> "_create_input_node"
          [] n = "analyze" -> "_analyze_input"
          [] n = "use_tool" -> "_use_tool_node"
          [] n = "respond" -> "_respond_node"
          [] n = "check_complete" -> "_check_complete_node"
          [] n = "output" -> "_create_output_node"]

\* Graph.add_edge as create_graph calls it
Edge(source, target, condition) ==
    [source |-> source, target |-> target, condition |-> condition]

\* The edges in the order create_graph adds them
AgentEdges ==
    <<Edge("input", "analyze", None),
      Edge("analyze", "use_tool", "has_tool_calls()"),
      Edge("analyze", "respond", "logical_not(has_tool_calls())"),
      Edge("use_tool", "respond", None),
      Edge("respond", "check_complete", None),
      Edge("check_complete", "output", "is_complete"),
      Edge("check_complete", "analyze", "logical_not(is_complete)")>>

\* SimpleAgent.process_input
process_input(user_input) ==
    instantiate("AgentState", OneKwarg("messages", <<"list", user_input>>)).data

\* The states SimpleAgent.run passes to execute
ProcessInputs == {process_input(user_input) : user_input \in UserMessages}

\* The states the callers of create_graph().execute pass: an AgentState with
\* no or one user message, no or one tool call, complete or not
AgentStarts ==
    {instantiate("AgentState",
                 [NoKwargs EXCEPT !["messages"] = m, !["tool_calls"] = t,
                                  !["is_complete"] = c]).data :
        m \in {Missing} \cup {<<"list", u>> : u \in UserMessages},
        t \in {Missing} \cup {<<"list", k>> : k \in {CallsTool, CallsFailingTool,
                                                     CallsUnregistered}},
        c \in {Missing, TrueValue}}

\* The graph create_graph returns, no execute call made on it
InitSimpleAgent ==
    /\ nodes = AgentNodeFuncs
    /\ edges = AgentEdges
    /\ entry_point = "input"
    /\ pc = "idle"
    /\ current_state = NoState
    /\ current_node = None
    /\ visited_nodes = {}
    /\ call = None
    /\ raised = None
    /\ returned = NoState
    /\ log = <<>>
    /\ cond_log = {}
    /\ issues = {}
    /\ text = <<>>
    /\ frames = [r \in Runs |-> NewFrame]
    /\ no_states
    /\ no_services

\* One execute call on the graph
NextSimpleAgent ==
    \/ \E initial_state \in AgentStarts :
          run_begin(1, initial_state) /\ UNCHANGED <<graph, single_frame, schema, services>>
    \/ run_step(1) /\ UNCHANGED <<graph, single_frame, schema, services>>

SpecSimpleAgent == InitSimpleAgent /\ [][NextSimpleAgent]_vars

\* The execute call, once made, runs its loop to the end: the node functions
\* and the predicates of the graph all return
FairSimpleAgent == SpecSimpleAgent /\ WF_vars(NextSimpleAgent)

\* ------------------------------------------------------- StrategySelector
MaxComplexity == 8
HighComplexity == 7
LowComplexity == 3

StrategyNames == {"traditional", "compiled", "auto"}
\* The names callers and the environment give: the three names, a name
\* outside them, the empty string and None
GivenNames == StrategyNames \cup {"invalid", "", None}
DefaultNames == StrategyNames \cup {"invalid"}
Complexities == {NoneValue} \cup {<<"int", n>> : n \in -1..MaxComplexity}

\* name and name in ["traditional", "compiled", "auto"]
given(name) == name \notin {None, ""} /\ name \in StrategyNames

select_strategy_header_first(config, request_strategy, header_strategy, request_complexity) ==
    IF given(header_strategy) THEN header_strategy
    ELSE IF given(request_strategy) THEN request_strategy
    ELSE config.default_strategy

\* StrategySelector.select_strategy
select_strategy(config, request_strategy, header_strategy, request_complexity) ==
    IF given(request_strategy) THEN request_strategy
    ELSE IF given(header_strategy) THEN header_strategy
    ELSE IF config.enable_auto_switch /\ truthy(request_complexity)
    THEN IF request_complexity[2] > HighComplexity THEN "compiled"
         ELSE IF request_complexity[2] < LowComplexity THEN "traditional"
         ELSE "compiled"
    ELSE config.default_strategy

\* StrategySelector.__init__ under some environment
InitSelector ==
    /\ nodes = [n \in Names |-> None]
    /\ edges = <<>>
    /\ entry_point = None
    /\ pc = "idle"
    /\ current_state = NoState
    /\ current_node = None
    /\ visited_nodes = {}
    /\ call = None
    /\ raised = None
    /\ returned = NoState
    /\ log = <<>>
    /\ cond_log = {}
    /\ issues = {}
    /\ text = <<>>
    /\ frames = <<>>
    /\ no_states
    /\ selector \in [default_strategy : DefaultNames, enable_auto_switch : BOOLEAN]
    /\ selection = NoSelection
    /\ strategy = NewStrategy(DefaultCacheSize)
    /\ agents = [a \in Agents |-> [key |-> "k1", valid |-> TRUE]]
    /\ executed = NoRun
    /\ traditional = NewTraditional

\* A select_strategy call
select(request_strategy, header_strategy, request_complexity) ==
    /\ selection' =
          [request_strategy |-> request_strategy,
           header_strategy |-> header_strategy,
           request_complexity |-> request_complexity,
           result |-> select_strategy(selector, request_strategy, header_strategy,
                                      request_complexity)]
    /\ UNCHANGED <<selector, strategy, agents, executed, traditional>>

NextSelector ==
    \E request_strategy \in GivenNames, header_strategy \in GivenNames,
       request_complexity \in Complexities :
          select(request_strategy, header_strategy, request_complexity)
          /\ UNCHANGED <<graph, single_frame, frames, schema>>

SpecSelector == InitSelector /\ [][NextSelector]_vars

\* ------------------------------------------------------- CompiledStrategy
MaxCacheSize == 2
MaxExecutes == 3

\* GraphCache._generate_key
generate_key(agent) == agents[agent].key

\* len(self._cache)
cache_len(c) == Cardinality({k \in AgentKeys : c.cache[k].owner # 0})

\* GraphCache.get
cache_get(c, agent) == c.cache[generate_key(agent)]

\* GraphCache.clear
cache_clear(c) ==
    [c EXCEPT !.cache = [k \in AgentKeys |-> NoGraph],
              !.validation_cache = [k \in AgentKeys |-> "absent"]]

\* GraphCache.set
cache_set(c, agent, g) ==
    LET evicted == IF cache_len(c) >= c.max_size THEN cache_clear(c) ELSE c
    IN [evicted EXCEPT !.cache[generate_key(agent)] = g]

\* GraphCache.is_valid: the cache after is_valid(key), which stores the
\* outcome of graph.validate() for a key that has none stored
is_valid_stored(c, key) ==
    IF c.validation_cache[key] = "absent"
    THEN [c EXCEPT !.validation_cache[key] =
             IF c.cache[key].has_issues THEN "invalid" ELSE "valid"]
    ELSE c

\* agent.create_graph()
create_graph(agent) == [owner |-> agent, has_issues |-> ~agents[agent].valid]

execute_always_builds(agent, fails) ==
    /\ strategy.execution_count < MaxExecutes
    /\ strategy.cache_hits + strategy.cache_misses < MaxExecutes
    /\ strategy' = [strategy EXCEPT !.cache_misses = @ + 1,
                                    !.execution_count = @ + 1]
    /\ executed' = [agent |-> agent, graph |-> create_graph(agent), cached |-> FALSE,
                    built |-> 1, hit |-> FALSE, validated |-> FALSE, raised |-> fails]
    /\ UNCHANGED <<selector, selection, agents, traditional>>

\* CompiledStrategy.execute; fails: process_input, graph.execute or
\* format_output raises
execute(agent, fails) ==
    /\ strategy.execution_count < MaxExecutes
    /\ strategy.cache_hits + strategy.cache_misses < MaxExecutes
    /\ LET got == cache_get(strategy, agent)
           miss == got.owner = 0
           first == IF miss THEN create_graph(agent) ELSE got
           counted == IF miss
                      THEN [cache_set(strategy, agent, first)
                               EXCEPT !.cache_misses = @ + 1]
                      ELSE [strategy EXCEPT !.cache_hits = @ + 1]
           cache_key == generate_key(agent)
           checked == is_valid_stored(counted, cache_key)
           valid == checked.validation_cache[cache_key] = "valid"
       IN /\ strategy' = IF fails THEN checked
                         ELSE [checked EXCEPT !.execution_count = @ + 1]
          /\ executed' =
                [agent |-> agent,
                 graph |-> IF valid THEN first ELSE create_graph(agent),
                 cached |-> valid,
                 built |-> (IF miss THEN 1 ELSE 0) + (IF valid THEN 0 ELSE 1),
                 hit |-> ~miss,
                 validated |-> counted.validation_cache[cache_key] = "absent",
                 raised |-> fails]
    /\ UNCHANGED <<selector, selection, agents, traditional>>

\* The graph TraditionalStrategy.execute runs: graph = agent.create_graph()
traditional_graph(agent) == create_graph(agent)

\* TraditionalStrategy.execute; fails: process_input, graph.execute or
\* format_output raises
traditional_execute(agent, fails) ==
    /\ traditional.execution_count < MaxExecutes
    /\ traditional' = [execution_count |-> IF fails THEN traditional.execution_count
                                           ELSE traditional.execution_count + 1,
                       agent |-> agent, graph |-> traditional_graph(agent),
                       raised |-> fails]
    /\ UNCHANGED <<selector, selection, strategy, agents, executed>>

\* CompiledStrategy.clear_cache
clear_cache ==
    /\ strategy' = [cache_clear(strategy) EXCEPT !.cache_hits = 0, !.cache_misses = 0]
    /\ UNCHANGED <<selector, selection, agents, executed, traditional>>

\* BaseAgent.register_tool: the agent's tool names, and so its key, change
register_tool(agent) ==
    /\ \E key \in AgentKeys \ {agents[agent].key} :
          agents' = [agents EXCEPT ![agent].key = key]
    /\ UNCHANGED <<selector, selection, strategy, executed, traditional>>

\* Graph.add_node on a graph the cache holds, called by whoever kept the graph
\* create_graph returned: the new node has no incoming edge, so validate()
\* returns an issue from then on
add_orphan_node(key) ==
    /\ strategy.cache[key].owner # 0
    /\ strategy' = [strategy EXCEPT !.cache[key].has_issues = TRUE]
    /\ UNCHANGED <<selector, selection, agents, executed, traditional>>

\* CompiledStrategy(cache_size) for some agents
InitCompiled ==
    /\ nodes = [n \in Names |-> None]
    /\ edges = <<>>
    /\ entry_point = None
    /\ pc = "idle"
    /\ current_state = NoState
    /\ current_node = None
    /\ visited_nodes = {}
    /\ call = None
    /\ raised = None
    /\ returned = NoState
    /\ log = <<>>
    /\ cond_log = {}
    /\ issues = {}
    /\ text = <<>>
    /\ frames = <<>>
    /\ no_states
    /\ selector = DefaultSelector
    /\ selection = NoSelection
    /\ strategy \in {NewStrategy(cache_size) : cache_size \in 0..MaxCacheSize}
    /\ agents \in [Agents -> [key : AgentKeys, valid : BOOLEAN]]
    /\ executed = NoRun
    /\ traditional = NewTraditional

NextCompiled ==
    \/ \E agent \in Agents, fails \in BOOLEAN :
          execute(agent, fails) /\ UNCHANGED <<graph, single_frame, frames, schema>>
    \/ \E agent \in Agents, fails \in BOOLEAN :
          traditional_execute(agent, fails)
          /\ UNCHANGED <<graph, single_frame, frames, schema>>
    \/ clear_cache /\ UNCHANGED <<graph, single_frame, frames, schema>>
    \/ \E agent \in Agents :
          register_tool(agent) /\ UNCHANGED <<graph, single_frame, frames, schema>>
    \/ \E key \in AgentKeys :
          add_orphan_node(key) /\ UNCHANGED <<graph, single_frame, frames, schema>>

SpecCompiled == InitCompiled /\ [][NextCompiled]_vars

\* A fresh CompiledStrategy on which one agent is executed, its tools unchanged
NextSingleAgent ==
    \E fails \in BOOLEAN :
        execute(1, fails) /\ UNCHANGED <<graph, single_frame, frames, schema>>

SpecSingleAgent == InitCompiled /\ [][NextSingleAgent]_vars

\* What a call of execute on the graph does when it runs alone: the outcome of
\* the traversal from the node, written as a function of the graph and the state
RECURSIVE AloneFrom(_, _, _, _)
AloneFrom(node, state, visited, trace) ==
    IF node \in visited
    THEN [pc |-> "raised", error |-> CycleError, trace |-> trace, state |-> NoState]
    ELSE IF nodes[node] = "fail"
    THEN [pc |-> "raised", error |-> NodeFuncError,
          trace |-> Append(trace, node), state |-> NoState]
    ELSE LET q == QualifyingEdges(node, state + 1)
         IN IF q = {}
            THEN [pc |-> "returned", error |-> None,
                  trace |-> Append(trace, node), state |-> state + 1]
            ELSE AloneFrom(edges[Earliest(q)].target, state + 1,
                           visited \cup {node}, Append(trace, node))

Alone(initial_state) ==
    IF entry_point = None
    THEN [pc |-> "raised", error |-> NoEntryPointError, trace |-> <<>>,
          state |-> NoState]
    ELSE AloneFrom(entry_point, initial_state, {}, <<>>)

\* What the ended call r did: how it ended, the nodes it executed, the error
\* it raised and the state it returned
Outcome(r) ==
    [pc |-> frames[r].pc, error |-> frames[r].error, trace |-> frames[r].trace,
     state |-> IF frames[r].pc = "returned" THEN frames[r].state ELSE NoState]

\* The execute call of the single frame does what a call alone does
SingleFrameRunsAlone ==
    (Finished /\ entry_point # None) =>
        LET alone == Alone(log[1].input)
        IN /\ LogNodes = alone.trace
           /\ raised = alone.error
           /\ returned = alone.state

\* C14: two execute calls on one graph that are given equal initial states
\* execute the same sequence of nodes and end the same way: both return equal
\* states or both raise the same error.
C14_EqualInitialStatesEqualOutcomes ==
    \A r1, r2 \in Runs :
        (Ended(r1) /\ Ended(r2) /\ frames[r1].initial = frames[r2].initial) =>
            Outcome(r1) = Outcome(r2)

C14_Witness ==
    /\ Ended(1)
    /\ Ended(2)
    /\ frames[1].initial = frames[2].initial
    /\ frames[1].pc = "returned"
    /\ Len(frames[1].trace) = 2
    /\ Outcome(1) = Outcome(2)

\* C15: an execute call leaves the node table, the edge list and the entry
\* point as they are, and a call that comes after another call on the same
\* graph has ended does what a call alone on that graph does; when it raises
\* the cycle error, the node it found visited is one it executed itself.
C15_SecondCallRunsAsOnFreshGraph ==
    /\ [][nodes' = nodes /\ edges' = edges /\ entry_point' = entry_point]_vars
    /\ [](Ended(2) => Outcome(2) = Alone(frames[2].initial))
    /\ []((frames[2].pc = "raised" /\ frames[2].error = CycleError) =>
              \E i \in 1..Len(frames[2].trace) :
                  frames[2].trace[i] = frames[2].node)

C15_Witness ==
    /\ Ended(1)
    /\ Len(frames[1].trace) = 2
    /\ frames[2].pc = "returned"
    /\ Len(frames[2].trace) = 2

\* C16: however the iterations of two execute calls on one graph interleave,
\* each call executes the nodes and ends the way a call alone with its initial
\* state does, and a call that raises the cycle error found visited a node it
\* executed itself.
C16_InterleavedCallsRunAsAlone ==
    \A r \in Runs :
        /\ Ended(r) => Outcome(r) = Alone(frames[r].initial)
        /\ (frames[r].pc = "raised" /\ frames[r].error = CycleError) =>
              \E i \in 1..Len(frames[r].trace) : frames[r].trace[i] = frames[r].node

C16_Witness ==
    /\ frames[1].pc = "running"
    /\ frames[2].pc = "running"
    /\ frames[1].node \in frames[2].visited
    /\ frames[1].node \notin frames[1].visited
    /\ frames[1].visited # {}

\* C17: once a node's function has raised in an execute call, the call has
\* ended with that error and without a returned state; the failed call of the
\* function is the last one of the run (no later node, no second try) and no
\* condition was called after it.
C17_NodeFailurePropagates ==
    \A i \in 1..Len(log) :
        log[i].output = NoState =>
            /\ i = Len(log)
            /\ pc = "idle"
            /\ raised = NodeFuncError
            /\ returned = NoState
            /\ cond_log = {}

C17_Witness ==
    /\ Finished
    /\ raised = NodeFuncError
    /\ Len(log) = 2
    /\ LastRun.output = NoState
    /\ \E i \in 1..Len(edges) : edges[i].source = LastRun.node

\* The i-th node of the chain that the edge list forms from the entry point
ChainNode(i) == IF i = 1 THEN entry_point ELSE edges[i - 1].target

\* What a node function does to the bindings
Effect(func, state) ==
    LET key == CASE func = "set_a" -> "a"
                 [] func = "set_b" -> "b"
                 [] func = "set_c" -> "c"
                 [] func = "set_b3" -> "b"
        value == CASE func = "set_a" -> 1
                   [] func = "set_b" -> 2
                   [] func = "set_c" -> 3
                   [] func = "set_b3" -> 3
    IN [k \in Keys |-> IF k = key THEN value ELSE state[k]]

\* The functions of the first i nodes of the chain applied in chain order
RECURSIVE ComposeTo(_, _)
ComposeTo(i, state) ==
    IF i = 0 THEN state ELSE Effect(nodes[ChainNode(i)], ComposeTo(i - 1, state))

\* The i-th edge is unconditional or its predicate holds on its source's output
EdgeHolds(i, initial_state) ==
    \/ edges[i].condition = None
    \/ edges[i].condition = "b_equals_2" /\ ComposeTo(i, initial_state)["b"] = 2

ChainOfThree ==
    /\ Len(edges) = 2
    /\ nodes[ChainNode(1)] = "set_a"
    /\ nodes[ChainNode(2)] = "set_b"
    /\ nodes[ChainNode(3)] = "set_c"
    /\ edges[1].condition = None
    /\ edges[2].condition = "b_equals_2"

\* C18: on a chain of edges from the entry point whose edges are unconditional
\* or have a predicate that holds on the source's output, an ended execute call
\* has returned the node functions applied in chain order to the initial state,
\* having executed the nodes of the chain in order; for the chain of three
\* nodes setting a=1, b=2, c=3 with the second edge guarded by b == 2, the call
\* on the empty state returns the bindings a: 1, b: 2, c: 3.
C18_ChainReturnsComposition ==
    (Ended(1) /\ \A i \in 1..Len(edges) : EdgeHolds(i, frames[1].initial)) =>
        /\ frames[1].pc = "returned"
        /\ frames[1].trace = [i \in 1..(Len(edges) + 1) |-> ChainNode(i)]
        /\ frames[1].state = ComposeTo(Len(edges) + 1, frames[1].initial)
        /\ (ChainOfThree /\ frames[1].initial = EmptyState) =>
               frames[1].state = [a |-> 1, b |-> 2, c |-> 3]

C18_Witness ==
    /\ ChainOfThree
    /\ frames[1].pc = "returned"
    /\ frames[1].initial = EmptyState
    /\ Len(frames[1].trace) = 3
    /\ frames[1].state = [a |-> 1, b |-> 2, c |-> 3]

\* The key and the value of a set call
SetKey(c) == CHOOSE k \in Fields : c.kwargs[k] # Missing
SetValue(c) == c.kwargs[SetKey(c)]

\* a == b on the instances of heap h
EqualIn(h, a, b) ==
    /\ h[a].cls = "StateSchema" \/ h[b].cls = h[a].cls
    /\ h[a].data = h[b].data

\* C19: a set call that returns gives an instance that did not exist before
\* (so it is not the instance it was called on), every instance that existed,
\* the one it was called on included, keeps the bindings it had, and when the
\* key was bound to another value, or not bound, before the call the result
\* and the instance it was called on are not equal, in either order.
C19_SetLeavesSelfAlone ==
    [][(last'.op = "set" /\ last'.error = None) =>
          /\ last'.result \in DOMAIN heap'
          /\ last'.result \notin DOMAIN heap
          /\ last'.result # last'.self
          /\ \A i \in DOMAIN heap : heap'[i] = heap[i]
          /\ heap[last'.self].data[SetKey(last')] # SetValue(last') =>
                /\ ~EqualIn(heap', last'.self, last'.result)
                /\ ~EqualIn(heap', last'.result, last'.self)]_vars

C19_Witness ==
    /\ last.op = "set"
    /\ last.error = None
    /\ last.result # last.self
    /\ heap[last.self].data[SetKey(last)] \in Values \ {SetValue(last)}
    /\ heap[last.result].data[SetKey(last)] = SetValue(last)

\* C20: a set or update call that raises the validation error returns no
\* instance, constructs none, and every instance, the one it was called on
\* included, keeps exactly the bindings it had before the call.
C20_FailedMutationChangesNothing ==
    [][(last'.op \in {"set", "update"} /\ last'.error = StateValidationError) =>
          /\ last'.result = 0
          /\ heap' = heap]_vars

C20_Witness ==
    /\ last.op = "update"
    /\ last.error = StateValidationError
    /\ last.result = 0
    /\ heap[last.self].data["age"] \in IntValues
    /\ last.kwargs["name"] \in StrValues
    /\ last.kwargs["age"] \in StrValues

\* The type a class declares for the key, "" for a key no class declares
DeclaredKind(k) ==
    CASE k \in {"messages", "tool_calls", "intermediate_steps"} -> "list"
      [] k = "is_complete" -> "bool"
      [] k \in {"current_node", "next_node", "name"} -> "str"
      [] k \in {"context", "results"} -> "dict"
      [] k = "age" -> "int"
      [] OTHER -> ""

BoundKeys(kwargs) == {k \in Fields : kwargs[k] # Missing}

\* C21: a constructor, set or update call of a subclass that declares field
\* types, given values for declared fields only, raises StateValidationError
\* when one of the values is not of the declared type, and raises nothing when
\* every value is of the declared type.
C21_WrongKindAlwaysRaises ==
    (/\ last.op \in {"init", "set", "update"}
     /\ BoundKeys(last.kwargs) # {}
     /\ \A k \in BoundKeys(last.kwargs) : DeclaredKind(k) # "") =>
        IF \E k \in BoundKeys(last.kwargs) : last.kwargs[k][1] # DeclaredKind(k)
        THEN last.error = StateValidationError
        ELSE last.error = None

\* C22: a set call with a key the instance's class does not declare raises
\* nothing and returns a new instance of the same class whose bindings are the
\* bindings of the instance it was called on with the key bound to the value.
C22_UndeclaredKeyIsAccepted ==
    (last.op = "set" /\ DeclaredKind(SetKey(last)) = "") =>
        /\ last.error = None
        /\ last.result \in Ids
        /\ last.result # last.self
        /\ heap[last.result].cls = heap[last.self].cls
        /\ heap[last.result].data =
              [k \in Fields |-> IF k = SetKey(last) THEN SetValue(last)
                                ELSE heap[last.self].data[k]]

\* What the chains s.set(k1, v1)...set(kn, vn) over the bindings of kwargs give,
\* in every order of the keys
RECURSIVE ChainOutcomes(_, _, _, _)
ChainOutcomes(cls, data, keys, kwargs) ==
    IF keys = {}
    THEN {[error |-> None, data |-> data]}
    ELSE UNION {LET r == set_returns(cls, data, k, kwargs[k])
                IN IF r.error # None THEN {r}
                   ELSE ChainOutcomes(cls, r.data, keys \ {k}, kwargs) : k \in keys}

\* C23: an update call raises exactly when the chain of set calls with the same
\* bindings raises, the instance it returns has the bindings the chain ends
\* with, and the instance it was called on keeps its bindings.
C23_UpdateIsChainOfSets ==
    [][last'.op = "update" =>
          /\ heap'[last'.self] = heap[last'.self]
          /\ \A o \in ChainOutcomes(heap[last'.self].cls, heap[last'.self].data,
                                    BoundKeys(last'.kwargs), last'.kwargs) :
                /\ (o.error = None) <=> (last'.error = None)
                /\ last'.error = None => heap'[last'.result].data = o.data]_vars

\* C24: a == b holds exactly when the two instances are of the same class and
\* have equal bindings, and a == b and b == a agree, for instances of one
\* class and for an instance of StateSchema and one of its subclass.
C24_EqualIffSameClassAndBindings ==
    \A a, b \in Ids :
        /\ equals(a, b) <=> (heap[a].cls = heap[b].cls /\ heap[a].data = heap[b].data)
        /\ equals(a, b) <=> equals(b, a)

C24_Witness ==
    /\ Len(heap) = 2
    /\ heap[1].cls = "StateSchema"
    /\ heap[2].cls = "TestState"
    /\ heap[1].data = heap[2].data
    /\ heap[1].data["name"] \in StrValues
    /\ ~equals(1, 2)
    /\ ~equals(2, 1)

\* C25: rebuilding an instance from its to_dict() with from_dict gives an
\* instance that is equal to it.
C25_FromDictRoundTrips ==
    last.op = "from_dict" =>
        /\ last.error = None
        /\ last.result \in Ids
        /\ equals(last.result, last.self)

Selected == selection.result # None

\* C29: a select_strategy call returns the request-level name when it is one
\* of the three strategy names; otherwise the header-level name when that is
\* one of them; otherwise what the later levels give, which without
\* auto-switching is the configured default and with it the default,
\* traditional or compiled. A name outside the three is never returned for
\* its level.
C29_LevelsInOrder ==
    Selected =>
        IF selection.request_strategy \in StrategyNames
        THEN selection.result = selection.request_strategy
        ELSE IF selection.header_strategy \in StrategyNames
        THEN selection.result = selection.header_strategy
        ELSE /\ selection.result \in
                   {selector.default_strategy, "traditional", "compiled"}
             /\ ~selector.enable_auto_switch =>
                   selection.result = selector.default_strategy

C29_Witness ==
    /\ selection.request_strategy = "invalid"
    /\ selection.header_strategy = "auto"
    /\ selection.result = "auto"
    /\ selector.default_strategy = "compiled"

\* C30: with auto-switching enabled and neither the request-level nor the
\* header-level name one of the three strategy names, a select_strategy call
\* with a complexity below 3 returns traditional and one with a complexity of
\* 3 or more returns compiled, whatever the configured default.
C30_AutoSwitchByComplexity ==
    (/\ Selected
     /\ selector.enable_auto_switch
     /\ selection.request_strategy \notin StrategyNames
     /\ selection.header_strategy \notin StrategyNames
     /\ selection.request_complexity # NoneValue) =>
        IF selection.request_complexity[2] < 3
        THEN selection.result = "traditional"
        ELSE selection.result = "compiled"

\* C26: the number of graphs the cache holds never exceeds the configured
\* maximum size.
C26_CacheWithinMaxSize == cache_len(strategy) <= strategy.max_size

\* C27 as stated: on a fresh CompiledStrategy with one agent, the first
\* execute is counted as a miss and calls create_graph once, and every later
\* execute is counted as a hit and leaves the miss count at 1.
C27_FirstBuildsOnceThenHits ==
    [][IF strategy.cache_hits + strategy.cache_misses = 0
       THEN /\ ~executed'.hit
            /\ strategy'.cache_misses = 1
            /\ strategy'.cache_hits = 0
            /\ executed'.built = 1
       ELSE /\ executed'.hit
            /\ strategy'.cache_hits = strategy.cache_hits + 1
            /\ strategy'.cache_misses = 1]_vars

\* C27 amended: the first execute is counted as a miss and calls create_graph
\* once when the graph it built passes validation and twice when it does not;
\* every later execute is counted as a hit and leaves the miss count at 1,
\* calling create_graph not at all when the cached graph passed validation and
\* once when it did not.
C27_FirstMissThenHits ==
    [][IF strategy.cache_hits + strategy.cache_misses = 0
       THEN /\ ~executed'.hit
            /\ strategy'.cache_misses = 1
            /\ strategy'.cache_hits = 0
            /\ executed'.built = IF agents[1].valid THEN 1 ELSE 2
       ELSE /\ executed'.hit
            /\ strategy'.cache_hits = strategy.cache_hits + 1
            /\ strategy'.cache_misses = 1
            /\ executed'.built = IF agents[1].valid THEN 0 ELSE 1]_vars

C27_Witness ==
    /\ executed.agent = 1
    /\ executed.hit
    /\ strategy.cache_hits = 2
    /\ strategy.cache_misses = 1
    /\ ~agents[1].valid
    /\ executed.built = 1

\* C28: when execute runs the graph the cache holds, that graph has no
\* validation issue at the time of the call; when the cached graph has one,
\* the graph executed is a freshly built one.
C28_CachedGraphWithIssuesNeverExecuted ==
    (executed.agent # 0 /\ executed.cached) => ~executed.graph.has_issues

\* The elements of a list, in order
RECURSIVE Items(_)
Items(n) == IF n = 0 THEN <<>> ELSE Append(Items(n \div ListBase), n % ListBase)

ItemsOf(data, field) == Items(data[field][2])

\* The calls of a chain that extend the list `field`, in call order
RECURSIVE AddedTo(_, _)
AddedTo(field, calls) ==
    IF calls = <<>> THEN <<>>
    ELSE IF list_of(Head(calls)[1]) = field
         THEN <<Head(calls)[2][2]>> \o AddedTo(field, Tail(calls))
         ELSE AddedTo(field, Tail(calls))

\* The _data of the instance a chain of add calls returns
RECURSIVE AddChain(_, _)
AddChain(data, calls) ==
    IF calls = <<>> THEN data
    ELSE AddChain(add_returns(data, Head(calls)[1], Head(calls)[2]).data, Tail(calls))

AddLists == {"messages", "tool_calls", "intermediate_steps"}
MaxChain == 3
AddChains == SeqsUpTo(AddOps \X Elements, MaxChain)

\* C31: add_message, add_tool_call and add_intermediate_step each return a new
\* AgentState whose list is the old list with the one element appended at the
\* end, the other fields and the original instance unchanged; after a chain
\* of such calls on a constructed AgentState each list holds the elements
\* added to it, in call order, after the elements it was constructed with.
C31_AddAppendsInCallOrder ==
    /\ [][last'.op \in AddOps /\ heap' # heap =>
            LET self == last'.self
                field == list_of(last'.op)
                new == heap'[last'.result]
            IN /\ last'.error = None
               /\ last'.result = Len(heap) + 1
               /\ SubSeq(heap', 1, Len(heap)) = heap
               /\ new.cls = "AgentState"
               /\ ItemsOf(new.data, field)
                     = Append(ItemsOf(heap[self].data, field), last'.kwargs[field][2])
               /\ \A k \in Fields \ {field} : new.data[k] = heap[self].data[k]]_vars
    /\ [](Len(heap) = 1 =>
             \A calls \in AddChains :
                LET chained == AddChain(heap[1].data, calls)
                IN \A field \in AddLists :
                      ItemsOf(chained, field)
                         = ItemsOf(heap[1].data, field) \o AddedTo(field, calls))

C31_Witness ==
    /\ Len(heap) = 3
    /\ last.op = "add_message"
    /\ last.self = 2
    /\ last.result = 3
    /\ ItemsOf(heap[1].data, "messages") = <<1>>
    /\ ItemsOf(heap[2].data, "messages") = <<1, 2>>
    /\ ItemsOf(heap[3].data, "messages") = <<1, 2, 1>>
    /\ heap[3].data["is_complete"] = TrueValue

\* The execute call on the SimpleAgent graph and the node it ran last
AgentRun == frames[1]
RanLast(f) == IF f.trace = <<>> THEN None ELSE f.trace[Len(f.trace)]

\* C32: when use_tool runs on a state whose first tool call names a tool that
\* raises, one step with an error entry is appended to intermediate_steps and
\* nothing else changes; when it names an unregistered tool the state is
\* unchanged; in both cases the run goes on with the respond node.
C32_ToolFailureDoesNotAbort ==
    [][(AgentRun.pc = "running" /\ AgentRun.node = "use_tool") =>
          LET before == AgentRun.state
              after == AgentRun'.state
              tool_call == Head(ItemsOf(before, "tool_calls"))
          IN tool_call \in {CallsFailingTool, CallsUnregistered} =>
                /\ AgentRun'.pc = "running"
                /\ AgentRun'.node = "respond"
                /\ RanLast(AgentRun') = "use_tool"
                /\ IF tool_call = CallsFailingTool
                   THEN /\ ItemsOf(after, "intermediate_steps")
                              = Append(ItemsOf(before, "intermediate_steps"), ErrorStep)
                        /\ \A k \in Fields \ {"intermediate_steps"} : after[k] = before[k]
                   ELSE after = before]_vars

C32_Witness ==
    /\ AgentRun.pc = "running"
    /\ RanLast(AgentRun) = "use_tool"
    /\ AgentRun.node = "respond"
    /\ Head(ItemsOf(AgentRun.state, "tool_calls")) = CallsFailingTool
    /\ ItemsOf(AgentRun.state, "intermediate_steps") = <<ErrorStep>>

\* C36: after check_complete has run, the next node is output exactly when
\* the state it returned has is_complete true, and analyze exactly when it
\* has is_complete false.
C36_CheckCompleteBranchesOnFlag ==
    (AgentRun.pc = "running" /\ RanLast(AgentRun) = "check_complete") =>
        /\ AgentRun.node = "output" <=> AgentRun.state["is_complete"] = TrueValue
        /\ AgentRun.node = "analyze" <=> AgentRun.state["is_complete"] = FalseValue

NodesWithoutTool == <<"input", "analyze", "respond", "check_complete", "output">>
NodesWithTool == <<"input", "analyze", "use_tool", "respond", "check_complete", "output">>
IsPrefix(p, q) == Len(p) <= Len(q) /\ SubSeq(q, 1, Len(p)) = p

\* C37: a run on process_input(user_input) never raises; it executes input,
\* analyze, use_tool exactly when analyze recorded a tool call, respond,
\* check_complete and output, each once and in this order, and returns after
\* output with exactly one assistant message added; and it does return.
C37_RunEndsAtOutput ==
    /\ []((AgentRun.pc # "ready" /\ AgentRun.initial \in ProcessInputs) =>
             /\ AgentRun.pc # "raised"
             /\ \/ IsPrefix(AgentRun.trace, NodesWithoutTool)
                \/ IsPrefix(AgentRun.trace, NodesWithTool)
             /\ AgentRun.pc = "returned" =>
                   /\ AgentRun.trace = IF ItemsOf(AgentRun.state, "tool_calls") # <<>>
                                       THEN NodesWithTool ELSE NodesWithoutTool
                   /\ Len(SelectSeq(ItemsOf(AgentRun.state, "messages"),
                                    LAMBDA m : m \in AssistantMessages)) = 1)
    /\ (AgentRun.pc = "running") ~> (AgentRun.pc = "returned")

C37_Witness ==
    /\ AgentRun.pc = "returned"
    /\ AgentRun.initial = process_input(UserLeaves)
    /\ AgentRun.trace = NodesWithoutTool
    /\ ItemsOf(AgentRun.state, "messages") = <<UserLeaves, AssistantShort>>
    /\ AgentRun.state["is_complete"] = FalseValue

\* C33: whatever add_node, add_edge and set_entry_point calls were made, and
\* whether they returned or raised, the entry point is None only when no node
\* is registered and names a registered node otherwise, and both ends of
\* every edge are registered nodes; so execute never raises the
\* node-not-found error, and validate never returns the entry-point-not-found,
\* edge-source or edge-target issue.
C33_BuiltGraphHasNoDanglingName ==
    /\ entry_point = None => \A n \in Names : nodes[n] = None
    /\ entry_point # None => nodes[entry_point] # None
    /\ \A i \in 1..Len(edges) :
          nodes[edges[i].source] # None /\ nodes[edges[i].target] # None
    /\ call = "execute" => raised # NodeNotFoundError
    /\ \A issue \in issues :
          issue.message \notin {EntryPointNotFoundIssue, EdgeSourceIssue, EdgeTargetIssue}

C33_Witness ==
    /\ call = "add_edge"
    /\ raised = SourceNotFoundError
    /\ Len(edges) = 2
    /\ entry_point # None
    /\ \E n \in Names : nodes[n] = None

\* C34: in every execute call the first node executed is the entry point, and
\* for each node executed after another there is an edge from the earlier to
\* the later one that qualifies on the state the earlier one returned, and
\* that state is the one the later node is called with.
C34_RunFollowsQualifyingEdges ==
    (call = "execute" /\ log # <<>>) =>
        /\ log[1].node = entry_point
        /\ \A i \in 1..(Len(log) - 1) :
              /\ \E j \in 1..Len(edges) :
                    /\ edges[j].source = log[i].node
                    /\ edges[j].target = log[i + 1].node
                    /\ Qualifies(edges[j], log[i].output)
              /\ log[i + 1].input = log[i].output

C34_Witness ==
    /\ Finished
    /\ raised = None
    /\ Len(log) = 3
    /\ \E j \in 1..Len(edges) : edges[j].condition = "is_even"
    /\ log[3].input = log[2].output
    /\ log[1].node = entry_point

\* C35: an execute call on a graph with n registered nodes executes at most n
\* nodes: every iteration of its loop either ends the call or executes one
\* node that it had not visited and marks it visited; and the call does end,
\* by returning or raising, whatever cycles the edges form.
C35_ExecuteEndsWithinNodeCount ==
    /\ [](Len(frames[1].trace) <= Cardinality({n \in Names : nodes[n] # None}))
    /\ [][frames[1].pc = "running" =>
            \/ frames'[1].pc \in {"returned", "raised"}
            \/ /\ frames[1].node \notin frames[1].visited
               /\ frames'[1].visited = frames[1].visited \cup {frames[1].node}
               /\ nodes[frames[1].node] # None
               /\ Len(frames'[1].trace) = Len(frames[1].trace) + 1]_vars
    /\ (frames[1].pc = "running") ~> (frames[1].pc \in {"returned", "raised"})

C35_Witness ==
    /\ frames[1].pc = "raised"
    /\ frames[1].error = CycleError
    /\ frames[1].trace = <<"A", "B">>
    /\ Cardinality({n \in Names : nodes[n] # None}) = 2

\* C38: whatever execute calls were made and with whatever agents, agents
\* that share class, name and tool names included, the graph
\* CompiledStrategy.execute runs is one built by the agent passed in the
\* call, as the graph TraditionalStrategy.execute runs for that agent is, so
\* the two return the same output.
C38_CompiledRunsTheAgentsOwnGraph ==
    executed.agent # 0 =>
        executed.graph.owner = traditional_graph(executed.agent).owner

\* A step of CompiledStrategy.execute: the only one that counts a hit or a miss
CompiledExecuteStep ==
    strategy'.cache_hits + strategy'.cache_misses
        = strategy.cache_hits + strategy.cache_misses + 1

\* C39: an execute call on a CompiledStrategy whose cache_hits + cache_misses
\* equals its execution_count leaves them equal, whether it returns or
\* raises (so they are equal as long as clear_cache is not called); and the
\* execution_count of a CompiledStrategy or a TraditionalStrategy grows by one
\* in an execute call that returns and not at all in one that raises.
C39_CountersAgree ==
    [][/\ (CompiledExecuteStep
             /\ strategy.cache_hits + strategy.cache_misses = strategy.execution_count)
          => strategy'.cache_hits + strategy'.cache_misses = strategy'.execution_count
       /\ CompiledExecuteStep
          => strategy'.execution_count
                = strategy.execution_count + (IF executed'.raised THEN 0 ELSE 1)
       /\ traditional' # traditional
          => traditional'.execution_count
                = traditional.execution_count + (IF traditional'.raised THEN 0 ELSE 1)]_vars
====
